---- MODULE Spec2Model ----
(***************************************************************************)
(* bustools_cli: the ordered-record engine (sort, concat, busmerge).       *)
(*                                                                         *)
(* A busfile is a sequence of BusRecords; the file system is a function    *)
(* from file names to such sequences.  The programs sort_in_memory,        *)
(* sort_on_disk, concat_bus and merge_busfiles_on_overlap are modelled as  *)
(* state machines over the file system, one action per loop iteration.     *)
(***************************************************************************)
EXTENDS Integers, Sequences, FiniteSets, TLC

VARIABLES
    pc,               \* position of the running program
    overflow_checks,  \* build profile: TRUE = integer overflow panics, FALSE = wraps
    fs,               \* file system: file name -> sequence of BusRecords
    chunksize,        \* sort_on_disk: records per chunk
    nread,            \* sort_on_disk: records consumed from the input reader
    chunkfiles,       \* sort_on_disk: names of the tmp files written so far
    filenames,        \* concat_bus / busmerge: the list of input file names
    iterators,        \* MultiIterator: source name -> remaining (key, records) groups
    current_items,    \* MultiIterator: source name -> current head (key, records)
    emitted,          \* history: the (key, record_dict) items the MultiIterator yielded
    tmplog,           \* history: the events on the scoped temporary directory
    whitelist,        \* correct: the whitelist, a set of barcodes
    query,            \* correct_single_cb: the barcode looked up
    result,           \* correct_single_cb: the CorrectionResult returned
    unique_cbs,       \* correct: the distinct barcodes of the busfile
    cbs_todo,         \* build_correct_map: the barcodes the loop has not visited yet
    corrector,        \* build_correct_map: the map CB -> corrected CB (on integers)
    bk_queries,       \* history: the barcodes the BK-tree was queried with
    headers,          \* concat_bus: file name -> header parameters of the busfile
    ignore_multi_ec,  \* count: discard CB/UMIs with more than one record
    new_count_sample, \* baysian_count: the sampled count of every record
    map_calls,        \* history: the calls of map_record_list, argument and outcome
    all_expression_vector  \* count: (CB, gene) -> number of UMIs

correctVars == <<whitelist, query, result, unique_cbs, cbs_todo, corrector, bk_queries>>

countVars == <<ignore_multi_ec, new_count_sample, map_calls, all_expression_vector>>

vars == <<pc, overflow_checks, fs, chunksize, nread, chunkfiles, filenames,
          iterators, current_items, emitted, tmplog, correctVars, headers, countVars>>

----------------------------------------------------------------------------
(* Bounds of the model *)

MaxLen == 3     \* records in an input busfile
MaxChunk == 3   \* largest chunksize tried
MaxTotal == 4   \* records in the two input files of busmerge together

----------------------------------------------------------------------------
(* BusRecord.COUNT is a u32.  TLC's integers stop at 2^31 - 1, so a u32 is *)
(* kept as two 16-bit limbs <<hi, lo>> with value hi * 2^16 + lo.          *)

Limb == 2 ^ 16

U32(hi, lo) == <<hi, lo>>

U32Max == U32(Limb - 1, Limb - 1)

\* The exact sum of two counts; the high limb is not reduced, so the value
\* hi * 2^16 + lo may exceed 2^32 - 1.
ExactAdd(a, b) ==
    LET lo == a[2] + b[2]
    IN  <<a[1] + b[1] + (lo \div Limb), lo % Limb>>

FitsU32(w) == w[1] < Limb

\* u32 addition without overflow checks: the sum modulo 2^32.
WrappingAdd(a, b) ==
    LET s == ExactAdd(a, b)
    IN  U32(s[1] % Limb, s[2])

----------------------------------------------------------------------------
(* Records and the ordering key *)

\* Faulty variant of Key: the flag is left out of the key.
KeyNoFlag(record) == <<record.CB, record.UMI, record.EC, 0>>

\* The key under which sort_into_btree files a record.
Key(record) == <<record.CB, record.UMI, record.EC, record.FLAG>>

CbUmi(record) == <<record.CB, record.UMI>>

\* Ord of Rust tuples: lexicographic.
TupleLess(a, b) ==
    \E i \in 1..Len(a) :
        /\ a[i] < b[i]
        /\ \A j \in 1..(i - 1) : a[j] = b[j]

----------------------------------------------------------------------------
(* BTreeMap<(u64,u64,u32,u32), BusRecord>: a sequence of entries           *)
(* [k |-> key, v |-> record] kept in ascending key order, which is the     *)
(* order in which the map is iterated.                                     *)

BTreeFind(map, key) == {i \in 1..Len(map) : map[i].k = key}

\* Faulty variant of BTreeInsert: the entry is not put at its sorted place.
BTreeInsertFront(map, key, record) == <<[k |-> key, v |-> record]>> \o map

\* BTreeMap::insert
BTreeInsert(map, key, record) ==
    LET hit == BTreeFind(map, key)
        n   == Cardinality({i \in 1..Len(map) : TupleLess(map[i].k, key)})
    IN  IF hit # {}
        THEN [map EXCEPT ![CHOOSE i \in hit : TRUE].v = record]
        ELSE SubSeq(map, 1, n) \o <<[k |-> key, v |-> record]>>
                 \o SubSeq(map, n + 1, Len(map))

\* into_values() / iteration: the records in key order.
Values(map) == [i \in 1..Len(map) |-> map[i].v]

\* Faulty variant of AddCount: the count is overwritten instead of added.
AddCountOverwrite(st, i, record, checks) ==
    [st EXCEPT !.map[i].v.COUNT = record.COUNT]

\* r.COUNT += record.COUNT on a u32: panics on overflow when the build checks
\* overflow, wraps otherwise.
AddCount(st, i, record, checks) ==
    IF checks /\ ~FitsU32(ExactAdd(st.map[i].v.COUNT, record.COUNT))
    THEN [st EXCEPT !.panicked = TRUE]
    ELSE [st EXCEPT !.map[i].v.COUNT = WrappingAdd(@, record.COUNT)]

\* One iteration of the loop of sort_into_btree.
SortStep(st, record, checks) ==
    LET hit == BTreeFind(st.map, Key(record))
    IN  IF st.panicked THEN st
        ELSE IF hit # {}
             THEN AddCount(st, CHOOSE i \in hit : TRUE, record, checks)
             ELSE [st EXCEPT !.map = BTreeInsert(@, Key(record), record)]

RECURSIVE SortLoop(_, _, _)
SortLoop(st, records, checks) ==
    IF records = <<>> THEN st
    ELSE SortLoop(SortStep(st, Head(records), checks), Tail(records), checks)

\* sort_into_btree: the map, or a panic (arithmetic overflow).
sort_into_btree(records, checks) ==
    SortLoop([map |-> <<>>, panicked |-> FALSE], records, checks)

----------------------------------------------------------------------------
(* The file system *)

Put(f, name, content) ==
    [n \in (DOMAIN f) \cup {name} |-> IF n = name THEN content ELSE f[n]]

Remove(f, names) == [n \in (DOMAIN f) \ names |-> f[n]]

NoFiles == [n \in {} |-> <<>>]

\* Faulty variant of TmpName: every chunk gets the same file name.
TmpNameFixed(i) == "tmp_0.bus"

\* format!("tmp_{}.bus", i)
TmpName(i) ==
    CASE i = 0 -> "tmp_0.bus" [] i = 1 -> "tmp_1.bus" [] i = 2 -> "tmp_2.bus"
      [] i = 3 -> "tmp_3.bus" [] i = 4 -> "tmp_4.bus" [] i = 5 -> "tmp_5.bus"
      [] i = 6 -> "tmp_6.bus" [] i = 7 -> "tmp_7.bus" [] i = 8 -> "tmp_8.bus"

TmpNames == {TmpName(i) : i \in 0..8}

----------------------------------------------------------------------------
(* Inputs *)

Keys == {<<0, 0, 0, 0>>, <<0, 0, 0, 1>>, <<0, 0, 1, 0>>, <<0, 1, 0, 0>>, <<1, 0, 0, 0>>}

Counts == {U32(0, 1), U32Max}

Records ==
    {[CB |-> k[1], UMI |-> k[2], EC |-> k[3], COUNT |-> c, FLAG |-> k[4]] :
        k \in Keys, c \in Counts}

SeqsUpTo(S, n) == UNION {[1..m -> S] : m \in 0..n}


Min(a, b) == IF a < b THEN a ELSE b

\* A busfile whose records are grouped in ascending (CB, UMI) order: what
\* groupby_cbumi requires of its input.
CbUmiSorted(records) ==
    \A i \in 1..(Len(records) - 1) :
        ~TupleLess(CbUmi(records[i + 1]), CbUmi(records[i]))

----------------------------------------------------------------------------
(* Collaborators from the bustools crate: the CB/UMI grouping iterator and *)
(* the MultiIterator (synchronized multi-source merge).                    *)

\* groupby_cbumi: consecutive records with the same (CB, UMI) form one group.
\* Its input must be CB/UMI-sorted; every file opened below is (a chunk file
\* is written from a BTreeMap, the inputs of concat and busmerge are drawn
\* sorted).
RECURSIVE groupby_cbumi(_)
groupby_cbumi(records) ==
    IF records = <<>> THEN <<>>
    ELSE LET key == CbUmi(Head(records))
             n   == CHOOSE m \in 1..Len(records) :
                        /\ \A i \in 1..m : CbUmi(records[i]) = key
                        /\ m = Len(records) \/ CbUmi(records[m + 1]) # key
         IN  <<[key |-> key, records |-> SubSeq(records, 1, n)]>>
                 \o groupby_cbumi(SubSeq(records, n + 1, Len(records)))

\* MultiIterator::new: pull the first item of every source; a source that is
\* empty from the start gets no current item.
MultiIteratorNew(itermap) ==
    [iterators     |-> [n \in DOMAIN itermap |->
                           IF itermap[n] = <<>> THEN <<>> ELSE Tail(itermap[n])],
     current_items |-> [n \in {m \in DOMAIN itermap : itermap[m] # <<>>} |->
                           Head(itermap[n])]]

\* The minimum key over the current items.
MinKey(items) ==
    CHOOSE k \in {items[n].key : n \in DOMAIN items} :
        \A n \in DOMAIN items : ~TupleLess(items[n].key, k)

\* The sources that take part in the next emission.
Emitters(items) == {n \in DOMAIN items : items[n].key = MinKey(items)}

\* Faulty variant of MultiIterator::next: every source is advanced, whether
\* its head was emitted or not.
MultiIteratorNextAdvancesAll(its, items) ==
    LET names == Emitters(items)
        alive == {n \in DOMAIN items : its[n] # <<>>}
    IN  [key           |-> MinKey(items),
         emission      |-> [n \in names |-> items[n].records],
         iterators     |-> [n \in DOMAIN its |->
                               IF n \in alive THEN Tail(its[n]) ELSE its[n]],
         current_items |-> [n \in alive |-> Head(its[n])]]

\* MultiIterator::next on a non-empty current_items: emit the records of all
\* sources at the minimum key and advance exactly those sources.
MultiIteratorNext(its, items) ==
    LET names == Emitters(items)
        alive == {n \in names : its[n] # <<>>}
    IN  [key           |-> MinKey(items),
         emission      |-> [n \in names |-> items[n].records],
         iterators     |-> [n \in DOMAIN its |->
                               IF n \in alive THEN Tail(its[n]) ELSE its[n]],
         current_items |-> [n \in ((DOMAIN items) \ names) \cup alive |->
                               IF n \in names THEN Head(its[n]) ELSE items[n]]]

----------------------------------------------------------------------------
(* sort.rs *)

\* The orders in which a HashMap over the names S may be iterated.
Orders(S) ==
    {o \in [1..Cardinality(S) -> S] :
        \A i, j \in 1..Cardinality(S) : i # j => o[i] # o[j]}

RECURSIVE Flatten(_, _)
Flatten(record_dict, order) ==
    IF order = <<>> THEN <<>>
    ELSE record_dict[Head(order)] \o Flatten(record_dict, Tail(order))

\* Faulty variant of merge_chunks: the flattened lists are not re-aggregated.
merge_chunks_concat_only(record_dict, order, checks) ==
    [records |-> Flatten(record_dict, order), panicked |-> FALSE]

\* merge_chunks: flatten the per-source lists (in the map's iteration order)
\* and aggregate them with sort_into_btree.
merge_chunks(record_dict, order, checks) ==
    LET st == sort_into_btree(Flatten(record_dict, order), checks)
    IN  [records |-> Values(st.map), panicked |-> st.panicked]

\* Faulty variant of DropTmpdir: the directory outlives the function.
DropNothing(f) == f

\* What unwinding leaves behind: the scoped temporary directory is dropped.
DropTmpdir(f) == Remove(f, TmpNames)

\* The events on the temporary directory: tempdir() creates it,
TempdirCreated == [op |-> "tempdir", files |-> {}]

\* an iteration of the chunk loop creates tmp_<i>.bus with BusWriter::new,
\* writes the sorted chunk and drops (closes) the writer,
LogRunWritten(log, name) ==
    log \o <<[op |-> "create", files |-> {name}], [op |-> "close", files |-> {name}]>>

\* BusReader::new opens each chunk file, in the order of chunkfiles,
LogRunsOpened(log, files) ==
    log \o [i \in 1..Len(files) |-> [op |-> "open", files |-> {files[i]}]]

\* and dropping tmpdir removes the directory with every file in it.
LogDropTmpdir(log, f) ==
    IF log = <<>> THEN log
    ELSE Append(log, [op |-> "remove_dir_all", files |-> (DOMAIN f) \cap TmpNames])

\* sort_in_memory(busfile, outfile)
SortInMemory(busfile, outfile, done) ==
    LET st == sort_into_btree(fs[busfile], overflow_checks)
    IN  /\ IF st.panicked
           THEN /\ pc' = "panicked"
                /\ fs' = fs
           ELSE /\ pc' = done
                /\ fs' = Put(fs, outfile, Values(st.map))
        /\ UNCHANGED <<countVars, headers, correctVars, tmplog, overflow_checks, chunksize, nread, chunkfiles, filenames,
                       iterators, current_items, emitted>>

\* sort_on_disk, one iteration of the chunk loop: read the next chunksize
\* records, sort them in memory, write them to tmp_<i>.bus.
\* Faulty variant of ChunkEnd: a batch takes one record more than chunksize.
ChunkEndOneMore == Min(nread + chunksize + 1, Len(fs["in.bus"]))

ChunkEnd == Min(nread + chunksize, Len(fs["in.bus"]))

SortChunk ==
    /\ pc = "chunking"
    /\ nread < Len(fs["in.bus"])
    /\ LET st == sort_into_btree(SubSeq(fs["in.bus"], nread + 1, ChunkEnd),
                                 overflow_checks)
           tmpfilename == TmpName(Len(chunkfiles))
       IN  IF st.panicked
           THEN /\ pc' = "panicked"
                /\ fs' = DropTmpdir(fs)
                /\ tmplog' = LogDropTmpdir(tmplog, fs)
                /\ UNCHANGED <<nread, chunkfiles>>
           ELSE /\ pc' = "chunking"
                /\ fs' = Put(fs, tmpfilename, Values(st.map))
                /\ tmplog' = LogRunWritten(tmplog, tmpfilename)
                /\ nread' = ChunkEnd
                /\ chunkfiles' = Append(chunkfiles, tmpfilename)
    /\ UNCHANGED <<countVars, headers, correctVars, overflow_checks, chunksize, filenames, iterators,
                   current_items, emitted>>

\* Faulty variant of SortOpen: the last chunk file is not opened.
SortOpenSkipsLast ==
    /\ pc = "chunking"
    /\ nread = Len(fs["in.bus"])
    /\ LET names == {chunkfiles[i] : i \in 1..(Len(chunkfiles) - 1)}
           mi == MultiIteratorNew([n \in names |-> groupby_cbumi(fs[n])])
       IN  /\ iterators' = mi.iterators
           /\ current_items' = mi.current_items
    /\ fs' = Put(fs, "out.bus", <<>>)
    /\ tmplog' = LogRunsOpened(tmplog, SubSeq(chunkfiles, 1, Len(chunkfiles) - 1))
    /\ pc' = "merging"
    /\ UNCHANGED <<countVars, headers, correctVars, overflow_checks, chunksize, nread, chunkfiles, filenames, emitted>>

\* sort_on_disk after the chunk loop: create the output file, open every
\* chunk file as a CB/UMI-grouped iterator, construct the MultiIterator.
SortOpen ==
    /\ pc = "chunking"
    /\ nread = Len(fs["in.bus"])
    /\ LET names == {chunkfiles[i] : i \in 1..Len(chunkfiles)}
           mi == MultiIteratorNew([n \in names |-> groupby_cbumi(fs[n])])
       IN  /\ iterators' = mi.iterators
           /\ current_items' = mi.current_items
    /\ fs' = Put(fs, "out.bus", <<>>)
    /\ tmplog' = LogRunsOpened(tmplog, chunkfiles)
    /\ pc' = "merging"
    /\ UNCHANGED <<countVars, headers, correctVars, overflow_checks, chunksize, nread, chunkfiles, filenames, emitted>>

\* One iteration of the merge loop (also the closure of concat_bus): take the
\* next item of the MultiIterator, merge_chunks it, append to the output.
MergeStep ==
    /\ pc = "merging"
    /\ DOMAIN current_items # {}
    /\ LET nx == MultiIteratorNext(iterators, current_items)
       IN  /\ iterators' = nx.iterators
           /\ current_items' = nx.current_items
           /\ emitted' = Append(emitted, [key |-> nx.key, dict |-> nx.emission])
           /\ \E order \in Orders(DOMAIN nx.emission) :
                  LET merged == merge_chunks(nx.emission, order, overflow_checks)
                  IN  IF merged.panicked
                      THEN /\ pc' = "panicked"
                           /\ fs' = DropTmpdir(fs)
                           /\ tmplog' = LogDropTmpdir(tmplog, fs)
                      ELSE /\ pc' = "merging"
                           /\ fs' = [fs EXCEPT !["out.bus"] = @ \o merged.records]
                           /\ tmplog' = tmplog
    /\ UNCHANGED <<countVars, headers, correctVars, overflow_checks, chunksize, nread, chunkfiles, filenames>>

\* Faulty variant of MergeFinish: the function returns while sources still
\* hold records.
MergeFinishEarly ==
    /\ pc = "merging"
    /\ pc' = "done"
    /\ fs' = DropTmpdir(fs)
    /\ tmplog' = LogDropTmpdir(tmplog, fs)
    /\ UNCHANGED <<countVars, headers, correctVars, overflow_checks, chunksize, nread, chunkfiles, filenames,
                   iterators, current_items, emitted>>

\* The MultiIterator is exhausted: the function returns, tmpdir is dropped.
MergeFinish ==
    /\ pc = "merging"
    /\ DOMAIN current_items = {}
    /\ pc' = "done"
    /\ fs' = DropTmpdir(fs)
    /\ tmplog' = LogDropTmpdir(tmplog, fs)
    /\ UNCHANGED <<countVars, headers, correctVars, overflow_checks, chunksize, nread, chunkfiles, filenames,
                   iterators, current_items, emitted>>

----------------------------------------------------------------------------
(* Specification of sort_on_disk("in.bus", "out.bus", chunksize) *)

\* The variables of the counting programs are not used by the others.
InitNoCount ==
    /\ ignore_multi_ec = FALSE
    /\ new_count_sample = <<>>
    /\ map_calls = <<>>
    /\ all_expression_vector = <<>>

\* The variables of the barcode correction are not used by the sorting,
\* concatenating and merging programs.
InitNoCorrect ==
    /\ whitelist = {}
    /\ query = <<>>
    /\ result = <<>>
    /\ unique_cbs = {}
    /\ cbs_todo = {}
    /\ corrector = <<>>
    /\ bk_queries = <<>>

InitSort ==
    /\ pc = "chunking"
    /\ overflow_checks \in BOOLEAN
    /\ \E busfile \in SeqsUpTo(Records, MaxLen) : fs = Put(NoFiles, "in.bus", busfile)
    /\ chunksize \in 1..MaxChunk
    /\ nread = 0
    /\ chunkfiles = <<>>
    /\ filenames = <<>>
    /\ iterators = NoFiles
    /\ current_items = NoFiles
    /\ emitted = <<>>
    /\ tmplog = <<TempdirCreated>>
    /\ headers = NoFiles
    /\ InitNoCount
    /\ InitNoCorrect

NextSort == SortChunk \/ SortOpen \/ MergeStep \/ MergeFinish

SpecSort == InitSort /\ [][NextSort]_vars

----------------------------------------------------------------------------
(* Specification of the Run Builder: sort_in_memory("in.bus", "out.bus"),  *)
(* then sort_in_memory("out.bus", "resorted.bus") on its own output.       *)

InitInMemory ==
    /\ pc = "start"
    /\ overflow_checks \in BOOLEAN
    /\ \E busfile \in SeqsUpTo(Records, MaxLen) : fs = Put(NoFiles, "in.bus", busfile)
    /\ chunksize = 1
    /\ nread = 0
    /\ chunkfiles = <<>>
    /\ filenames = <<>>
    /\ iterators = NoFiles
    /\ current_items = NoFiles
    /\ emitted = <<>>
    /\ tmplog = <<>>
    /\ headers = NoFiles
    /\ InitNoCount
    /\ InitNoCorrect

SortFirst == pc = "start" /\ SortInMemory("in.bus", "out.bus", "sorted")

SortAgain == pc = "sorted" /\ SortInMemory("out.bus", "resorted.bus", "resorted")

NextInMemory == SortFirst \/ SortAgain

SpecInMemory == InitInMemory /\ [][NextInMemory]_vars

----------------------------------------------------------------------------
(* concat.rs *)

Range(seq) == {seq[i] : i \in 1..Len(seq)}

\* readers: the HashMap from file name to the reader of that file.
Readers(names) == [f \in Range(names) |-> fs[f]]

\* Faulty variant of HeadersAgree: the parameters are not compared.
HeadersAgreeUnchecked(readers) == TRUE

\* The loop of assert_eq!(pa, params): every reader has the header
\* parameters of the first file.
HeadersAgree(readers) ==
    \A f \in DOMAIN readers : headers[f] = headers[filenames[1]]

\* concat_bus up to the construction of the MultiIterator: the readers are
\* kept in a HashMap keyed by file name, the output file is created, every
\* reader is grouped by CB/UMI.
ConcatOpen ==
    /\ pc = "start"
    /\ HeadersAgree(Readers(filenames))
    /\ LET readers == Readers(filenames)
           mi == MultiIteratorNew([f \in DOMAIN readers |-> groupby_cbumi(readers[f])])
       IN  /\ iterators' = mi.iterators
           /\ current_items' = mi.current_items
    /\ fs' = Put(fs, "out.bus", <<>>)
    /\ headers' = Put(headers, "out.bus", headers[filenames[1]])
    /\ pc' = "merging"
    /\ UNCHANGED <<countVars, correctVars, tmplog, overflow_checks, chunksize, nread,
                   chunkfiles, filenames, emitted>>

\* The assertion on the header parameters fails: concat_bus panics before
\* the output writer is created.
ConcatHeaderMismatch ==
    /\ pc = "start"
    /\ ~HeadersAgree(Readers(filenames))
    /\ pc' = "header_mismatch"
    /\ UNCHANGED <<countVars, headers, correctVars, tmplog, overflow_checks, fs, chunksize,
                   nread, chunkfiles, filenames, iterators, current_items, emitted>>

\* write_iterator pulls one item of the flat_map: MultiIterator::next, then
\* merge_chunks, then the records are written.
ConcatStep == MergeStep

\* The iterator is exhausted; concat_bus returns.
ConcatFinish == MergeFinish

\* The busfiles of n records that are CB/UMI-sorted.
SortedFilesOfLen(n) == {s \in [1..n -> Records] : CbUmiSorted(s)}

\* The file system holds two CB/UMI-sorted busfiles, a.bus and b.bus, of at
\* most total records together.
TwoSortedFiles(total) ==
    \E la, lb \in 0..total :
        /\ la + lb <= total
        /\ \E a \in SortedFilesOfLen(la), b \in SortedFilesOfLen(lb) :
               fs = Put(Put(NoFiles, "a.bus", a), "b.bus", b)

InitConcat ==
    /\ pc = "start"
    /\ overflow_checks \in BOOLEAN
    /\ TwoSortedFiles(MaxLen)
    /\ filenames \in {<<"a.bus">>, <<"a.bus", "b.bus">>, <<"b.bus", "a.bus">>,
                      <<"a.bus", "a.bus">>}
    /\ chunksize = 1
    /\ nread = 0
    /\ chunkfiles = <<>>
    /\ iterators = NoFiles
    /\ current_items = NoFiles
    /\ emitted = <<>>
    /\ tmplog = <<>>
    /\ headers = [f \in {"a.bus", "b.bus"} |-> [cb_len |-> 16, umi_len |-> 12]]
    /\ InitNoCount
    /\ InitNoCorrect

NextConcat == ConcatOpen \/ ConcatStep \/ ConcatFinish

SpecConcat == InitConcat /\ [][NextConcat]_vars

----------------------------------------------------------------------------
(* busmerger.rs *)

\* Faulty variant of SourceFiles: both names read busfile1.
SourceFilesBothFirst == [n \in {"f1", "f2"} |-> filenames[1]]

\* h: the source names "f1", "f2" and the busfile each one reads.
SourceFiles == [n \in {"f1", "f2"} |-> IF n = "f1" THEN filenames[1] ELSE filenames[2]]

\* writers: the output file of each source name.
Writers == [n \in {"f1", "f2"} |-> IF n = "f1" THEN "out1.bus" ELSE "out2.bus"]

\* Faulty variant of PresentInBoth: one contributing file is enough.
PresentInAny(record_map) == Cardinality(DOMAIN record_map) >= 1

\* record_map.len() == 2
PresentInBoth(record_map) == Cardinality(DOMAIN record_map) = 2

\* merge_busfiles_on_overlap up to the loop: both writers are created, the
\* CB/UMI iterator over both inputs is constructed.
OverlapOpen ==
    /\ pc = "start"
    /\ LET h == SourceFiles
           mi == MultiIteratorNew([n \in DOMAIN h |-> groupby_cbumi(fs[h[n]])])
       IN  /\ iterators' = mi.iterators
           /\ current_items' = mi.current_items
    /\ fs' = Put(Put(fs, Writers["f1"], <<>>), Writers["f2"], <<>>)
    /\ pc' = "merging"
    /\ UNCHANGED <<countVars, headers, correctVars, tmplog, overflow_checks, chunksize, nread, chunkfiles, filenames, emitted>>

\* One iteration of the loop: a CB/UMI present in both files is written to
\* both outputs, each side with its own records.
OverlapStep ==
    /\ pc = "merging"
    /\ DOMAIN current_items # {}
    /\ LET nx == MultiIteratorNext(iterators, current_items)
           record_map == nx.emission
       IN  /\ iterators' = nx.iterators
           /\ current_items' = nx.current_items
           /\ emitted' = Append(emitted, [key |-> nx.key, dict |-> record_map])
           /\ fs' = IF PresentInBoth(record_map)
                    THEN [f \in DOMAIN fs |->
                             IF \E n \in DOMAIN record_map : Writers[n] = f
                             THEN fs[f] \o record_map[CHOOSE n \in DOMAIN record_map :
                                                          Writers[n] = f]
                             ELSE fs[f]]
                    ELSE fs
    /\ UNCHANGED <<countVars, headers, correctVars, tmplog, pc, overflow_checks, chunksize, nread, chunkfiles, filenames>>

OverlapFinish ==
    /\ pc = "merging"
    /\ DOMAIN current_items = {}
    /\ pc' = "done"
    /\ UNCHANGED <<countVars, headers, correctVars, tmplog, overflow_checks, fs, chunksize, nread, chunkfiles, filenames,
                   iterators, current_items, emitted>>

InitOverlap ==
    /\ pc = "start"
    /\ overflow_checks \in BOOLEAN
    /\ TwoSortedFiles(MaxTotal)
    /\ filenames = <<"a.bus", "b.bus">>
    /\ chunksize = 1
    /\ nread = 0
    /\ chunkfiles = <<>>
    /\ iterators = NoFiles
    /\ current_items = NoFiles
    /\ emitted = <<>>
    /\ tmplog = <<>>
    /\ headers = NoFiles
    /\ InitNoCount
    /\ InitNoCorrect

NextOverlap == OverlapOpen \/ OverlapStep \/ OverlapFinish

SpecOverlap == InitOverlap /\ [][NextOverlap]_vars

----------------------------------------------------------------------------
(* Properties.  The ordering key of a Record is (cb, umi, ec, flag),       *)
(* compared lexicographically.                                             *)

OrderingKey(r) == <<r.CB, r.UMI, r.EC, r.FLAG>>

CoarseKey(r) == <<r.CB, r.UMI>>

StrictlyAscending(records) ==
    \A i \in 1..(Len(records) - 1) :
        TupleLess(OrderingKey(records[i]), OrderingKey(records[i + 1]))

KeysOf(records) == {OrderingKey(records[i]) : i \in 1..Len(records)}

CoarseKeysOf(records) == {CoarseKey(records[i]) : i \in 1..Len(records)}

\* The records of a busfile with the given coarse key, in file order.
RECURSIVE WithCoarseKey(_, _)
WithCoarseKey(records, key) ==
    IF records = <<>> THEN <<>>
    ELSE (IF CoarseKey(Head(records)) = key THEN <<Head(records)>> ELSE <<>>)
             \o WithCoarseKey(Tail(records), key)

\* The records of mine whose coarse key also occurs in other, in file order.
RECURSIVE SharedWith(_, _)
SharedWith(mine, other) ==
    IF mine = <<>> THEN <<>>
    ELSE (IF CoarseKey(Head(mine)) \in CoarseKeysOf(other)
          THEN <<Head(mine)>> ELSE <<>>)
             \o SharedWith(Tail(mine), other)

\* The exact (unbounded) sum of the counts of the records with the given key.
RECURSIVE SumCounts(_, _)
SumCounts(records, key) ==
    IF records = <<>> THEN <<0, 0>>
    ELSE IF OrderingKey(Head(records)) = key
         THEN ExactAdd(Head(records).COUNT, SumCounts(Tail(records), key))
         ELSE SumCounts(Tail(records), key)

EmittedKeys == {emitted[i].key : i \in 1..Len(emitted)}

SourceKeys ==
    UNION {CoarseKeysOf(fs[chunkfiles[i]]) : i \in 1..Len(chunkfiles)}

MergeYieldsUnionOfKeys ==
    pc = "merging" =>
        /\ EmittedKeys \subseteq SourceKeys
        /\ \A i, j \in 1..Len(emitted) : i # j => emitted[i].key # emitted[j].key
        /\ DOMAIN current_items = {} => EmittedKeys = SourceKeys

\* Three sources, two keys: one key is held by more than one source.
MergeYieldsUnionOfKeysWitness ==
    /\ pc = "merging"
    /\ DOMAIN current_items = {}
    /\ Len(chunkfiles) = 3
    /\ Cardinality(EmittedKeys) = 2
    /\ CoarseKeysOf(fs[chunkfiles[3]]) # CoarseKeysOf(fs[chunkfiles[1]])

\* C4: the keys of the yielded Merge Groups are strictly ascending: every
\* yielded key is strictly greater than the one yielded just before it.
MergeKeysStrictlyAscending ==
    \A i \in 1..(Len(emitted) - 1) : TupleLess(emitted[i].key, emitted[i + 1].key)

\* Three sources whose keys arrive in descending order in the input.
MergeKeysStrictlyAscendingWitness ==
    /\ Len(emitted) = 3
    /\ Len(chunkfiles) = 3
    /\ CoarseKey(fs["in.bus"][1]) = <<1, 0>>
    /\ CoarseKey(fs["in.bus"][2]) = <<0, 1>>
    /\ CoarseKey(fs["in.bus"][3]) = <<0, 0>>

\* C5: a yielded Merge Group for key k maps exactly the sources whose file
\* holds k, each to the complete list of that file's records for k; no source
\* is mapped to an empty list and no source holding k is left out.
InputOf(name) == IF name = "f1" THEN filenames[1] ELSE filenames[2]

MergeGroupHoldsExactlySourcesWithKey ==
    \A i \in 1..Len(emitted) :
        LET g == emitted[i]
        IN  /\ DOMAIN g.dict =
                   {n \in {"f1", "f2"} : WithCoarseKey(fs[InputOf(n)], g.key) # <<>>}
            /\ \A n \in DOMAIN g.dict :
                   /\ g.dict[n] = WithCoarseKey(fs[InputOf(n)], g.key)
                   /\ g.dict[n] # <<>>

\* One group with both sources (a tie) and one group with a single source,
\* and the two sources hold different records for the shared key.
MergeGroupHoldsExactlySourcesWithKeyWitness ==
    /\ \E i \in 1..Len(emitted) :
           /\ DOMAIN emitted[i].dict = {"f1", "f2"}
           /\ emitted[i].dict["f1"] # emitted[i].dict["f2"]
           /\ Len(emitted[i].dict["f1"]) = 2
    /\ \E i \in 1..Len(emitted) : DOMAIN emitted[i].dict = {"f2"}

\* C6: when merge_busfiles_on_overlap has completed, output i is exactly the
\* subsequence of input i's records whose (cb, umi) also occurs in the other
\* input, in input order and unchanged; so a (cb, umi) is in an output iff it
\* is in both inputs.
OverlapOutputsAreSharedRecords ==
    pc = "done" =>
        /\ fs["out1.bus"] = SharedWith(fs[filenames[1]], fs[filenames[2]])
        /\ fs["out2.bus"] = SharedWith(fs[filenames[2]], fs[filenames[1]])
        /\ CoarseKeysOf(fs["out1.bus"]) =
               CoarseKeysOf(fs[filenames[1]]) \cap CoarseKeysOf(fs[filenames[2]])
        /\ CoarseKeysOf(fs["out2.bus"]) = CoarseKeysOf(fs["out1.bus"])

\* A shared key with different record content on the two sides, and on each
\* side a key the other side lacks.
OverlapOutputsAreSharedRecordsWitness ==
    /\ pc = "done"
    /\ fs["out1.bus"] # <<>>
    /\ fs["out1.bus"] # fs["out2.bus"]
    /\ Len(fs["out1.bus"]) < Len(fs[filenames[1]])
    /\ Len(fs["out2.bus"]) < Len(fs[filenames[2]])

\* C7: when concat_bus has completed, out.bus is strictly ascending by full
\* key, holds one record per full key of the input files, and the count of a
\* key is the sum of the counts of every input record with that key.
ConcatInput ==
    Flatten([f \in Range(filenames) |-> fs[f]],
            CHOOSE o \in Orders(Range(filenames)) : TRUE)

ConcatCountsAreExactSums ==
    pc = "done" =>
        /\ StrictlyAscending(fs["out.bus"])
        /\ KeysOf(fs["out.bus"]) = KeysOf(ConcatInput)
        /\ \A i \in 1..Len(fs["out.bus"]) :
               fs["out.bus"][i].COUNT =
                   SumCounts(ConcatInput, OrderingKey(fs["out.bus"][i]))

\* C8: the output of the Run Builder is strictly ascending by
\* (cb, umi, ec, flag) and holds exactly one record for each distinct key of
\* the input; records that differ in any key field stay separate.
RunBuilderSortedOnePerKey ==
    pc = "sorted" =>
        /\ StrictlyAscending(fs["out.bus"])
        /\ KeysOf(fs["out.bus"]) = KeysOf(fs["in.bus"])

\* An unsorted input of three records, two of which differ in the flag only.
RunBuilderSortedOnePerKeyWitness ==
    /\ pc = "sorted"
    /\ Len(fs["in.bus"]) = 3
    /\ Len(fs["out.bus"]) = 3
    /\ TupleLess(OrderingKey(fs["in.bus"][2]), OrderingKey(fs["in.bus"][1]))
    /\ \E i, j \in 1..3 :
           /\ fs["in.bus"][i].FLAG # fs["in.bus"][j].FLAG
           /\ <<fs["in.bus"][i].CB, fs["in.bus"][i].UMI, fs["in.bus"][i].EC>>
                  = <<fs["in.bus"][j].CB, fs["in.bus"][j].UMI, fs["in.bus"][j].EC>>

\* C9: the count of the Run Builder's output record for a key is the sum of
\* the counts of all input records with that key.
RunBuilderCountsAreExactSums ==
    pc = "sorted" =>
        \A i \in 1..Len(fs["out.bus"]) :
            fs["out.bus"][i].COUNT =
                SumCounts(fs["in.bus"], OrderingKey(fs["out.bus"][i]))

\* C10: the Run Builder applied to its own output yields the identical
\* record sequence.
RunBuilderIdempotent ==
    pc = "resorted" => fs["resorted.bus"] = fs["out.bus"]

\* The first pass both reordered and aggregated its input.
RunBuilderIdempotentWitness ==
    /\ pc = "resorted"
    /\ Len(fs["in.bus"]) = 3
    /\ Len(fs["out.bus"]) = 2
    /\ TupleLess(OrderingKey(fs["in.bus"][3]), OrderingKey(fs["in.bus"][1]))

----------------------------------------------------------------------------
(* Specification of the Run Builder under reordering: sort_into_btree is   *)
(* applied to the records of "in.bus", then to a permutation of them, then *)
(* to a split of them into two parts whose sorted lists merge_chunks       *)
(* combines (tests::test_merge_sorted_aggregated).  A run that panics      *)
(* writes no file.                                                         *)

\* The rearrangements of a record sequence.
Rearrangements(records) ==
    {[i \in 1..Len(records) |-> records[p[i]]] : p \in Orders(1..Len(records))}

\* The records at the positions in idx, in file order.
RECURSIVE Pick(_, _, _)
Pick(records, idx, i) ==
    IF i > Len(records) THEN <<>>
    ELSE (IF i \in idx THEN <<records[i]>> ELSE <<>>) \o Pick(records, idx, i + 1)

\* Write the sorted records unless the run panicked.
WriteUnlessPanicked(run, outfile) ==
    fs' = IF run.panicked THEN fs ELSE Put(fs, outfile, run.records)

AggregateVarsUnchanged ==
    UNCHANGED <<countVars, headers, correctVars, tmplog, overflow_checks, chunksize, nread, chunkfiles,
                filenames, iterators, current_items, emitted>>

AggWhole ==
    /\ pc = "start"
    /\ LET st == sort_into_btree(fs["in.bus"], overflow_checks)
       IN  WriteUnlessPanicked([records |-> Values(st.map), panicked |-> st.panicked],
                               "out.bus")
    /\ pc' = "whole"
    /\ AggregateVarsUnchanged

AggPermuted ==
    /\ pc = "whole"
    /\ \E P \in Rearrangements(fs["in.bus"]) :
           LET st == sort_into_btree(P, overflow_checks)
           IN  WriteUnlessPanicked([records |-> Values(st.map), panicked |-> st.panicked],
                                   "perm_out.bus")
    /\ pc' = "permuted"
    /\ AggregateVarsUnchanged

AggSplit ==
    /\ pc = "permuted"
    /\ \E idx \in SUBSET (1..Len(fs["in.bus"])), order \in Orders({"s1", "s2"}) :
           LET A  == sort_into_btree(Pick(fs["in.bus"], idx, 1), overflow_checks)
               B  == sort_into_btree(Pick(fs["in.bus"], (1..Len(fs["in.bus"])) \ idx, 1),
                                     overflow_checks)
               record_dict == [n \in {"s1", "s2"} |->
                                  IF n = "s1" THEN Values(A.map) ELSE Values(B.map)]
               merged == merge_chunks(record_dict, order, overflow_checks)
           IN  WriteUnlessPanicked([records  |-> merged.records,
                                    panicked |-> A.panicked \/ B.panicked \/ merged.panicked],
                                   "split_out.bus")
    /\ pc' = "split"
    /\ AggregateVarsUnchanged

InitAggregate ==
    /\ pc = "start"
    /\ overflow_checks \in BOOLEAN
    /\ \E busfile \in SeqsUpTo(Records, MaxLen) : fs = Put(NoFiles, "in.bus", busfile)
    /\ chunksize = 1
    /\ nread = 0
    /\ chunkfiles = <<>>
    /\ filenames = <<>>
    /\ iterators = NoFiles
    /\ current_items = NoFiles
    /\ emitted = <<>>
    /\ tmplog = <<>>
    /\ headers = NoFiles
    /\ InitNoCount
    /\ InitNoCorrect

NextAggregate == AggWhole \/ AggPermuted \/ AggSplit

SpecAggregate == InitAggregate /\ [][NextAggregate]_vars

\* Two runs had the same outcome: both panicked, or both wrote the same records.
SameOutcome(f, g) ==
    /\ (f \in DOMAIN fs) = (g \in DOMAIN fs)
    /\ (f \in DOMAIN fs) => fs[f] = fs[g]

\* C11: the Run Builder gives the same outcome on every permutation of its
\* input as on the input itself, and merging the sorted lists of the two
\* parts of any split of the input gives the outcome of sorting the whole.
AggregationIsOrderIndependent ==
    /\ pc \in {"permuted", "split"} => SameOutcome("perm_out.bus", "out.bus")
    /\ pc = "split" => SameOutcome("split_out.bus", "out.bus")

AggregationIsOrderIndependentWitness ==
    /\ pc = "split"
    /\ Len(fs["in.bus"]) = 3
    /\ OrderingKey(fs["in.bus"][1]) = OrderingKey(fs["in.bus"][3])
    /\ TupleLess(OrderingKey(fs["in.bus"][2]), OrderingKey(fs["in.bus"][1]))
    /\ fs["in.bus"][1].COUNT # fs["in.bus"][3].COUNT
    /\ "split_out.bus" \in DOMAIN fs
    /\ Len(fs["split_out.bus"]) = 2

----------------------------------------------------------------------------
(* correct.rs.  A barcode is a string of cb_len bases, kept as a sequence  *)
(* of one-letter strings; a whitelist is a HashSet of barcodes.            *)

MaxWhitelist == 3   \* barcodes in a whitelist

\* cb_len of the busfile header.
CbLen == 3

\* The barcodes the model draws from.
Barcodes == [1..CbLen -> {"A", "C"}]

Whitelists == {w \in SUBSET Barcodes : Cardinality(w) <= MaxWhitelist}

\* Faulty variant of MAX_DIST: barcodes two mismatches away are correctable.
MaxDistTwo == 1 + 1

\* const MAX_DIST
MAX_DIST == 1

\* The loop of my_hamming over the zipped bytes.
RECURSIVE HammingLoop(_, _, _, _)
HammingLoop(a, b, i, counter) ==
    IF i > Len(a) \/ i > Len(b) THEN counter
    ELSE HammingLoop(a, b, i + 1, IF a[i] # b[i] THEN counter + 1 ELSE counter)

\* Faulty variant of my_hamming: the last position is not compared.
my_hamming_skips_last(a, b) == HammingLoop(SubSeq(a, 1, Len(a) - 1), b, 1, 0)

\* my_hamming; the strings are of the same size (the assertion holds for
\* barcodes of one cb_len).
my_hamming(a, b) == HammingLoop(a, b, 1, 0)

\* CorrectionResult
NoHit == [kind |-> "NoHit", cbs |-> <<>>]

SingleHit(cb) == [kind |-> "SingleHit", cbs |-> <<cb>>]

Ambigous(cbs) == [kind |-> "Ambigous", cbs |-> cbs]

\* The whitelist entries BkTree::find reports for cb,
BkHits(bk, cb, tolerance) == {w \in bk : my_hamming(cb, w) <= tolerance}

\* as (entry, distance) pairs in the order of the tree walk.
BkFind(bk, cb, tolerance, order) ==
    [i \in 1..Len(order) |-> <<order[i], my_hamming(cb, order[i])>>]

\* The entries of the pairs at distance 0.
RECURSIVE PerfectMatch(_)
PerfectMatch(matches) ==
    IF matches = <<>> THEN <<>>
    ELSE (IF Head(matches)[2] = 0 THEN <<Head(matches)[1]>> ELSE <<>>)
             \o PerfectMatch(Tail(matches))

\* Faulty variant of correct_single_cb: an exact match among several hits
\* is not preferred.
correct_single_cb_no_perfect(cb, bk, order) ==
    LET matches == BkFind(bk, cb, MAX_DIST, order)
    IN  IF Len(matches) = 0 THEN NoHit
        ELSE IF Len(matches) = 1 THEN SingleHit(matches[1][1])
        ELSE Ambigous([i \in 1..Len(matches) |-> matches[i][1]])

\* Faulty variant of correct_single_cb: of several hits the first is taken.
correct_single_cb_first(cb, bk, order) ==
    LET matches == BkFind(bk, cb, MAX_DIST, order)
    IN  IF Len(matches) = 0 THEN NoHit ELSE SingleHit(matches[1][1])

\* correct_single_cb(cb, bk); order is the order in which bk.find walks
\* over its hits.
correct_single_cb(cb, bk, order) ==
    LET matches == BkFind(bk, cb, MAX_DIST, order)
    IN  IF Len(matches) = 0 THEN NoHit
        ELSE IF Len(matches) = 1 THEN SingleHit(matches[1][1])
        ELSE LET perfect_match == PerfectMatch(matches)
             IN  IF Len(perfect_match) = 1
                 THEN SingleHit(perfect_match[1])
                 ELSE Ambigous([i \in 1..Len(matches) |-> matches[i][1]])

----------------------------------------------------------------------------
(* Specification of correct_single_cb(query, bk) on the BK-tree of a       *)
(* whitelist.                                                              *)

CorrectSingleCb ==
    /\ pc = "start"
    /\ \E order \in Orders(BkHits(whitelist, query, MAX_DIST)) :
           result' = correct_single_cb(query, whitelist, order)
    /\ bk_queries' = Append(bk_queries, query)
    /\ pc' = "returned"
    /\ UNCHANGED <<countVars, headers, whitelist, query, unique_cbs, cbs_todo, corrector, tmplog,
                   overflow_checks, fs, chunksize, nread, chunkfiles, filenames,
                   iterators, current_items, emitted>>

InitCorrectSingle ==
    /\ pc = "start"
    /\ whitelist \in Whitelists
    /\ query \in Barcodes
    /\ result = <<>>
    /\ unique_cbs = {}
    /\ cbs_todo = {}
    /\ corrector = <<>>
    /\ bk_queries = <<>>
    /\ overflow_checks = FALSE
    /\ fs = NoFiles
    /\ chunksize = 1
    /\ nread = 0
    /\ chunkfiles = <<>>
    /\ filenames = <<>>
    /\ iterators = NoFiles
    /\ current_items = NoFiles
    /\ emitted = <<>>
    /\ tmplog = <<>>
    /\ headers = NoFiles
    /\ InitNoCount

NextCorrectSingle == CorrectSingleCb

SpecCorrectSingle == InitCorrectSingle /\ [][NextCorrectSingle]_vars

\* The Hamming distance: the number of positions at which two barcodes of
\* equal length differ.
HammingDistance(a, b) == Cardinality({i \in 1..Len(a) : a[i] # b[i]})

\* The whitelist entries within Hamming distance 1 of the query.
WithinBound == {w \in whitelist : HammingDistance(query, w) <= 1}

\* C12: a barcode that is in the whitelist verbatim gets SingleHit with
\* itself, also when other whitelist entries are within distance 1.
ExactMatchIsSingleHit ==
    (pc = "returned" /\ query \in whitelist) => result = SingleHit(query)

ExactMatchIsSingleHitWitness ==
    /\ pc = "returned"
    /\ query \in whitelist
    /\ \E w \in whitelist : HammingDistance(query, w) = 1
    /\ result.kind = "SingleHit"

\* C13: the result is NoHit exactly when no whitelist entry is within
\* Hamming distance 1 of the query.
NoHitIffNothingWithinBound ==
    pc = "returned" => ((result = NoHit) <=> (WithinBound = {}))

NoHitIffNothingWithinBoundWitness ==
    /\ pc = "returned"
    /\ result = NoHit
    /\ \E w \in whitelist : HammingDistance(query, w) = 2
    /\ \E w \in whitelist : HammingDistance(query, w) = 3

\* C14: when exactly one whitelist entry is within Hamming distance 1 of
\* the query, the result is SingleHit with that entry, at distance 0 or 1.
OneWithinBoundIsSingleHit ==
    (pc = "returned" /\ Cardinality(WithinBound) = 1)
        => \A w \in WithinBound : result = SingleHit(w)

OneWithinBoundIsSingleHitWitness ==
    /\ pc = "returned"
    /\ Cardinality(WithinBound) = 1
    /\ query \notin whitelist
    /\ Cardinality(whitelist) = 3
    /\ result.kind = "SingleHit"

\* C15: when two or more whitelist entries are within Hamming distance 1
\* of a query that is not in the whitelist, the result is Ambigous and
\* carries exactly the entries within the bound, each once.
SeveralWithinBoundIsAmbiguous ==
    (pc = "returned" /\ Cardinality(WithinBound) >= 2 /\ query \notin whitelist)
        => /\ result.kind = "Ambigous"
           /\ Range(result.cbs) = WithinBound
           /\ Len(result.cbs) = Cardinality(WithinBound)

SeveralWithinBoundIsAmbiguousWitness ==
    /\ pc = "returned"
    /\ Cardinality(WithinBound) = 2
    /\ query \notin whitelist
    /\ Cardinality(whitelist) = 3
    /\ result.kind = "Ambigous"

----------------------------------------------------------------------------
(* correct(busfile, busfile_out, whitelist_filename)                       *)

\* bustools::utils::seq_to_int and int_to_seq: a barcode is the base-4
\* number of its bases, A = 0, C = 1, G = 2, T = 3, first base highest.
BaseCode(b) == CASE b = "A" -> 0 [] b = "C" -> 1 [] b = "G" -> 2 [] b = "T" -> 3

CodeBase(c) == CASE c = 0 -> "A" [] c = 1 -> "C" [] c = 2 -> "G" [] c = 3 -> "T"

RECURSIVE seq_to_int(_)
seq_to_int(seq) ==
    IF seq = <<>> THEN 0
    ELSE seq_to_int(SubSeq(seq, 1, Len(seq) - 1)) * 4 + BaseCode(seq[Len(seq)])

RECURSIVE int_to_seq(_, _)
int_to_seq(i, seq_len) ==
    IF seq_len = 0 THEN <<>>
    ELSE Append(int_to_seq(i \div 4, seq_len - 1), CodeBase(i % 4))

\* HashMap::insert
MapInsert(map, key, value) ==
    [k \in (DOMAIN map) \cup {key} |-> IF k = key THEN value ELSE map[k]]

\* Faulty variant of build_correct_iteration: a corrected barcode is mapped
\* to itself instead of to the whitelist entry.
build_correct_iteration_keeps_cb(st, cb, wl, order) ==
    IF cb \in wl
    THEN [st EXCEPT !.corrector = MapInsert(@, seq_to_int(cb), seq_to_int(cb))]
    ELSE LET res == correct_single_cb(cb, wl, order)
         IN  [corrector  |-> IF res.kind = "SingleHit"
                             THEN MapInsert(st.corrector, seq_to_int(cb), seq_to_int(cb))
                             ELSE st.corrector,
              bk_queries |-> Append(st.bk_queries, cb)]

\* Faulty variant of build_correct_iteration: no fast path, every barcode
\* is looked up in the BK-tree.
build_correct_iteration_always_queries(st, cb, wl, order) ==
    LET res == correct_single_cb(cb, wl, order)
    IN  [corrector  |-> IF res.kind = "SingleHit"
                        THEN MapInsert(st.corrector, seq_to_int(cb), seq_to_int(res.cbs[1]))
                        ELSE st.corrector,
         bk_queries |-> Append(st.bk_queries, cb)]

\* One iteration of the loop of build_correct_map over cbs: a whitelist
\* member maps to itself without a query of the BK-tree; any other barcode
\* is looked up and gets an entry only on a SingleHit.
build_correct_iteration(st, cb, wl, order) ==
    IF cb \in wl
    THEN [st EXCEPT !.corrector = MapInsert(@, seq_to_int(cb), seq_to_int(cb))]
    ELSE LET res == correct_single_cb(cb, wl, order)
         IN  [corrector  |-> IF res.kind = "SingleHit"
                             THEN MapInsert(st.corrector, seq_to_int(cb), seq_to_int(res.cbs[1]))
                             ELSE st.corrector,
              bk_queries |-> Append(st.bk_queries, cb)]

\* Faulty variant of fix_record: a record without an entry is passed on.
fix_record_keeps_unknown(record, corr) ==
    IF record.CB \in DOMAIN corr
    THEN <<[record EXCEPT !.CB = corr[record.CB]]>>
    ELSE <<record>>

\* fix_record: Some(record with the corrected CB) or None, as a sequence
\* of at most one record.
fix_record(record, corr) ==
    IF record.CB \in DOMAIN corr
    THEN <<[record EXCEPT !.CB = corr[record.CB]]>>
    ELSE <<>>

\* The first pass: the whitelist is loaded, the distinct barcodes of the
\* busfile are collected; build_correct_map builds the BK-tree and starts
\* with an empty map.
CorrectCollect ==
    /\ pc = "start"
    /\ unique_cbs' = {int_to_seq(fs["in.bus"][i].CB, CbLen) : i \in 1..Len(fs["in.bus"])}
    /\ cbs_todo' = unique_cbs'
    /\ corrector' = <<>>
    /\ pc' = "building"
    /\ UNCHANGED <<countVars, headers, whitelist, query, result, bk_queries, tmplog, overflow_checks, fs,
                   chunksize, nread, chunkfiles, filenames, iterators, current_items,
                   emitted>>

\* One iteration of the loop of build_correct_map; a HashSet is iterated
\* in an arbitrary order.
BuildStep ==
    /\ pc = "building"
    /\ \E cb \in cbs_todo :
           /\ \E order \in Orders(BkHits(whitelist, cb, MAX_DIST)) :
                  LET st == build_correct_iteration(
                                [corrector |-> corrector, bk_queries |-> bk_queries],
                                cb, whitelist, order)
                  IN  /\ corrector' = st.corrector
                      /\ bk_queries' = st.bk_queries
           /\ cbs_todo' = cbs_todo \ {cb}
    /\ UNCHANGED <<countVars, headers, pc, whitelist, query, result, unique_cbs, tmplog, overflow_checks,
                   fs, chunksize, nread, chunkfiles, filenames, iterators,
                   current_items, emitted>>

\* build_correct_map returns; the busfile is opened again and the output
\* file is created.
CorrectOpen ==
    /\ pc = "building"
    /\ cbs_todo = {}
    /\ fs' = Put(fs, "out.bus", <<>>)
    /\ nread' = 0
    /\ pc' = "fixing"
    /\ UNCHANGED <<countVars, headers, correctVars, tmplog, overflow_checks, chunksize, chunkfiles,
                   filenames, iterators, current_items, emitted>>

\* Faulty variant of FixStep: a record is written before those written so
\* far.
FixStepPrepends ==
    /\ pc = "fixing"
    /\ nread < Len(fs["in.bus"])
    /\ fs' = [fs EXCEPT !["out.bus"] = fix_record(fs["in.bus"][nread + 1], corrector) \o @]
    /\ nread' = nread + 1
    /\ UNCHANGED <<countVars, headers, pc, correctVars, tmplog, overflow_checks, chunksize, chunkfiles,
                   filenames, iterators, current_items, emitted>>

\* The second pass, one record: filter_map(fix_record), written out.
FixStep ==
    /\ pc = "fixing"
    /\ nread < Len(fs["in.bus"])
    /\ fs' = [fs EXCEPT !["out.bus"] = @ \o fix_record(fs["in.bus"][nread + 1], corrector)]
    /\ nread' = nread + 1
    /\ UNCHANGED <<countVars, headers, pc, correctVars, tmplog, overflow_checks, chunksize, chunkfiles,
                   filenames, iterators, current_items, emitted>>

CorrectFinish ==
    /\ pc = "fixing"
    /\ nread = Len(fs["in.bus"])
    /\ pc' = "done"
    /\ UNCHANGED <<countVars, headers, correctVars, tmplog, overflow_checks, fs, chunksize, nread,
                   chunkfiles, filenames, iterators, current_items, emitted>>

\* The barcodes the whitelists and the busfiles of the model are made of.
WhitelistPool == {<<"A", "A", "A">>, <<"C", "A", "A">>, <<"C", "C", "A">>}

ObservedPool == {<<"A", "C", "A">>, <<"C", "A", "A">>, <<"C", "C", "C">>}

CorrectRecords ==
    {[CB |-> seq_to_int(b), UMI |-> u, EC |-> 0, COUNT |-> U32(0, 1), FLAG |-> 0] :
        b \in ObservedPool, u \in {0, 1}}

InitCorrect ==
    /\ pc = "start"
    /\ whitelist \in {w \in SUBSET WhitelistPool : Cardinality(w) <= MaxWhitelist}
    /\ \E busfile \in SeqsUpTo(CorrectRecords, MaxLen) : fs = Put(NoFiles, "in.bus", busfile)
    /\ query = <<>>
    /\ result = <<>>
    /\ unique_cbs = {}
    /\ cbs_todo = {}
    /\ corrector = <<>>
    /\ bk_queries = <<>>
    /\ overflow_checks = FALSE
    /\ chunksize = 1
    /\ nread = 0
    /\ chunkfiles = <<>>
    /\ filenames = <<>>
    /\ iterators = NoFiles
    /\ current_items = NoFiles
    /\ emitted = <<>>
    /\ tmplog = <<>>
    /\ headers = NoFiles
    /\ InitNoCount

NextCorrect == CorrectCollect \/ BuildStep \/ CorrectOpen \/ FixStep \/ CorrectFinish

SpecCorrect == InitCorrect /\ [][NextCorrect]_vars

\* The whitelist entries within Hamming distance 1 of the barcode b.
WithinBoundOf(b) == {w \in whitelist : HammingDistance(b, w) <= 1}

\* build_correct_map has returned.
MapBuilt == pc \in {"fixing", "done"}

\* C16: in the map build_correct_map returns, an observed barcode in the
\* whitelist maps to itself, one outside the whitelist with a single
\* whitelist entry within distance 1 maps to that entry, any other has no
\* entry; for a whitelist member a query of the index gives SingleHit with
\* the member, the result of the fast path.
CorrectionMapIsAsSpecified ==
    MapBuilt =>
        \A b \in unique_cbs :
            /\ b \in whitelist =>
                   /\ seq_to_int(b) \in DOMAIN corrector
                   /\ corrector[seq_to_int(b)] = seq_to_int(b)
                   /\ \A order \in Orders(BkHits(whitelist, b, MAX_DIST)) :
                          correct_single_cb(b, whitelist, order) = SingleHit(b)
            /\ (b \notin whitelist /\ Cardinality(WithinBoundOf(b)) = 1) =>
                   /\ seq_to_int(b) \in DOMAIN corrector
                   /\ \A w \in WithinBoundOf(b) : corrector[seq_to_int(b)] = seq_to_int(w)
            /\ (b \notin whitelist /\ Cardinality(WithinBoundOf(b)) # 1) =>
                   seq_to_int(b) \notin DOMAIN corrector

CorrectionMapIsAsSpecifiedWitness ==
    /\ pc = "fixing"
    /\ nread = 0
    /\ \E b \in unique_cbs : b \in whitelist /\ Cardinality(WithinBoundOf(b)) = 2
    /\ \E b \in unique_cbs : b \notin whitelist /\ Cardinality(WithinBoundOf(b)) = 1
    /\ \E b \in unique_cbs : seq_to_int(b) \notin DOMAIN corrector

\* The records the second pass is to emit for the records read, in input
\* order: a record whose cb is a key of the map, with the cb replaced and
\* every other field kept; nothing for any other record.
RECURSIVE Corrected(_)
Corrected(records) ==
    IF records = <<>> THEN <<>>
    ELSE LET r == Head(records)
         IN  (IF r.CB \in DOMAIN corrector
              THEN <<[CB |-> corrector[r.CB], UMI |-> r.UMI, EC |-> r.EC,
                      COUNT |-> r.COUNT, FLAG |-> r.FLAG]>>
              ELSE <<>>) \o Corrected(Tail(records))

\* C17: the output of the second pass is, in input order, one record for
\* every input record whose cb is a key of the Correction Map, equal to it
\* but for the mapped cb; the other input records are dropped.
SecondPassEmitsMappedRecords ==
    MapBuilt => fs["out.bus"] = Corrected(SubSeq(fs["in.bus"], 1, nread))

SecondPassEmitsMappedRecordsWitness ==
    /\ pc = "done"
    /\ Len(fs["in.bus"]) = 3
    /\ Len(fs["out.bus"]) = 2
    /\ fs["in.bus"][2].CB \notin DOMAIN corrector
    /\ fs["out.bus"][1].CB # fs["in.bus"][1].CB
    /\ fs["out.bus"][2].CB = fs["in.bus"][3].CB
    /\ fs["out.bus"][1].UMI # fs["out.bus"][2].UMI

\* C18 as stated: the number of BK-tree queries is the number of distinct
\* barcodes of the busfile.
QueriesEqualDistinctBarcodes ==
    pc = "done" => Len(bk_queries) = Cardinality(unique_cbs)

\* C18: the BK-tree is queried once for every distinct barcode of the
\* busfile that is not in the whitelist and for nothing else, whatever the
\* number of records, and the second pass adds no query.
QueriesAreTheDistinctNonMembers ==
    MapBuilt =>
        /\ Range(bk_queries) = unique_cbs \ whitelist
        /\ Len(bk_queries) = Cardinality(unique_cbs \ whitelist)

QueriesAreTheDistinctNonMembersWitness ==
    /\ pc = "done"
    /\ Len(fs["in.bus"]) = 3
    /\ Cardinality(unique_cbs) = 2
    /\ Cardinality(unique_cbs \cap whitelist) = 1
    /\ Len(bk_queries) = 1

----------------------------------------------------------------------------
(* sort_on_disk with I/O failures.  BusWriter and BusReader panic on an    *)
(* I/O error; the panic unwinds through sort_on_disk, which drops tmpdir.  *)

\* The chunk loop fails while it writes a run: BusWriter::new fails (the
\* file is not created), or a write fails after a part of the run.
RunWriteFails ==
    /\ pc = "chunking"
    /\ nread < Len(fs["in.bus"])
    /\ LET st == sort_into_btree(SubSeq(fs["in.bus"], nread + 1, ChunkEnd),
                                 overflow_checks)
           tmpfilename == TmpName(Len(chunkfiles))
       IN  /\ ~st.panicked
           /\ \E created \in BOOLEAN, n \in 0..Len(st.map) :
                  LET partial == IF created
                                 THEN Put(fs, tmpfilename, SubSeq(Values(st.map), 1, n))
                                 ELSE fs
                      log     == IF created
                                 THEN Append(tmplog, [op |-> "create", files |-> {tmpfilename}])
                                 ELSE tmplog
                  IN  /\ fs' = DropTmpdir(partial)
                      /\ tmplog' = LogDropTmpdir(log, partial)
    /\ pc' = "io_failed"
    /\ UNCHANGED <<countVars, headers, correctVars, overflow_checks, chunksize, nread, chunkfiles, filenames,
                   iterators, current_items, emitted>>

\* After the chunk loop: creating the output file fails (k = 0), or the
\* output file is created and opening the k-th run fails.
MergeOpenFails ==
    /\ pc = "chunking"
    /\ nread = Len(fs["in.bus"])
    /\ \E k \in 0..Len(chunkfiles) :
           LET opened == IF k = 0 THEN fs ELSE Put(fs, "out.bus", <<>>)
               log    == LogRunsOpened(tmplog, SubSeq(chunkfiles, 1, k - 1))
           IN  /\ fs' = DropTmpdir(opened)
               /\ tmplog' = LogDropTmpdir(log, opened)
    /\ pc' = "io_failed"
    /\ UNCHANGED <<countVars, headers, correctVars, overflow_checks, chunksize, nread, chunkfiles, filenames,
                   iterators, current_items, emitted>>

\* The merge loop fails while it writes the merged records of an item to
\* the output, after a part of them.
OutputWriteFails ==
    /\ pc = "merging"
    /\ DOMAIN current_items # {}
    /\ LET nx == MultiIteratorNext(iterators, current_items)
       IN  /\ iterators' = nx.iterators
           /\ current_items' = nx.current_items
           /\ emitted' = Append(emitted, [key |-> nx.key, dict |-> nx.emission])
           /\ \E order \in Orders(DOMAIN nx.emission) :
                  LET merged == merge_chunks(nx.emission, order, overflow_checks)
                  IN  /\ ~merged.panicked
                      /\ \E n \in 0..(Len(merged.records) - 1) :
                             fs' = DropTmpdir([fs EXCEPT !["out.bus"] =
                                                  @ \o SubSeq(merged.records, 1, n)])
    /\ tmplog' = LogDropTmpdir(tmplog, fs)
    /\ pc' = "io_failed"
    /\ UNCHANGED <<countVars, headers, correctVars, overflow_checks, chunksize, nread, chunkfiles, filenames>>

NextSortIo ==
    \/ SortChunk
    \/ SortOpen
    \/ MergeStep
    \/ MergeFinish
    \/ RunWriteFails
    \/ MergeOpenFails
    \/ OutputWriteFails

SpecSortIo == InitSort /\ [][NextSortIo]_vars

\* sort_on_disk has ended: it returned or it panicked.
SortEnded == pc \in {"done", "panicked", "io_failed"}

\* The positions of the log at which op happened to the file.
Events(op, file) ==
    {i \in 1..Len(tmplog) : tmplog[i].op = op /\ file \in tmplog[i].files}

\* The files that were created in the temporary directory.
CreatedFiles == UNION {tmplog[i].files : i \in {j \in 1..Len(tmplog) : tmplog[j].op = "create"}}

\* C19: when sort_on_disk has ended, by returning or by aborting on an I/O
\* failure or a panic, no temporary file is left: the last event is the
\* removal of the temporary directory with every file created in it.
NoRunLeftBehind ==
    SortEnded =>
        /\ (DOMAIN fs) \cap TmpNames = {}
        /\ tmplog[Len(tmplog)].op = "remove_dir_all"
        /\ CreatedFiles \subseteq tmplog[Len(tmplog)].files

NoRunLeftBehindWitness ==
    /\ pc = "io_failed"
    /\ Len(chunkfiles) = 2
    /\ Events("open", chunkfiles[2]) # {}
    /\ "out.bus" \in DOMAIN fs
    /\ Len(fs["out.bus"]) >= 1

\* The merge has read the run to its end.
Consumed(run) ==
    /\ run \in DOMAIN iterators
    /\ iterators[run] = <<>>
    /\ run \notin DOMAIN current_items

Discarded(run) == Events("remove_dir_all", run) # {}

\* Every run is written once and closed before any run is opened.
WrittenOnceBeforeAnyOpen(run) ==
    /\ Cardinality(Events("create", run)) = 1
    /\ Cardinality(Events("close", run)) = 1
    /\ \A c \in Events("create", run), d \in Events("close", run) : c < d
    /\ \A i \in 1..Len(tmplog) :
           tmplog[i].op = "open" => \A d \in Events("close", run) : d < i

\* C20 as stated: every run is written and closed before any run is
\* opened, is opened exactly once, is not written again, and is discarded
\* only after the merge has consumed it.
EveryRunIsReadThenDiscarded ==
    \A run \in Range(chunkfiles) :
        /\ WrittenOnceBeforeAnyOpen(run)
        /\ Cardinality(Events("open", run)) <= 1
        /\ Discarded(run) => (Cardinality(Events("open", run)) = 1 /\ Consumed(run))

\* C20: every run is written once and closed before any run is opened, is
\* not written again, and is opened at most once; it stays on disk until
\* sort_on_disk ends; when sort_on_disk returns, every run was opened once
\* and consumed by the merge before it was discarded; when it aborts, the
\* runs are discarded at the abort, read or not.
RunLifecycle ==
    \A run \in Range(chunkfiles) :
        /\ WrittenOnceBeforeAnyOpen(run)
        /\ Cardinality(Events("open", run)) <= 1
        /\ pc \in {"merging", "done"} => Cardinality(Events("open", run)) = 1
        /\ Discarded(run) <=> SortEnded
        /\ ~Discarded(run) => run \in DOMAIN fs
        /\ \A d \in Events("remove_dir_all", run) : d = Len(tmplog)
        /\ pc = "done" => Consumed(run)

RunLifecycleWitness ==
    /\ pc = "io_failed"
    /\ Len(chunkfiles) = 2
    /\ \A run \in Range(chunkfiles) : Cardinality(Events("open", run)) = 1
    /\ \E run \in Range(chunkfiles) : Discarded(run) /\ ~Consumed(run)
    /\ \E run \in Range(chunkfiles) : Discarded(run) /\ Consumed(run)

----------------------------------------------------------------------------
(* Specification of concat_bus on busfiles whose header parameters may     *)
(* differ.                                                                 *)

\* The header parameters (BusParams) the model draws from.
HeaderParams ==
    {[cb_len |-> 16, umi_len |-> 12], [cb_len |-> 16, umi_len |-> 10],
     [cb_len |-> 12, umi_len |-> 12]}

InitConcatHeaders ==
    /\ pc = "start"
    /\ overflow_checks \in BOOLEAN
    /\ TwoSortedFiles(MaxLen - 1)
    /\ filenames \in {<<"a.bus">>, <<"a.bus", "b.bus">>, <<"b.bus", "a.bus">>,
                      <<"a.bus", "a.bus">>}
    /\ headers \in [{"a.bus", "b.bus"} -> HeaderParams]
    /\ chunksize = 1
    /\ nread = 0
    /\ chunkfiles = <<>>
    /\ iterators = NoFiles
    /\ current_items = NoFiles
    /\ emitted = <<>>
    /\ tmplog = <<>>
    /\ InitNoCorrect
    /\ InitNoCount

NextConcatHeaders == ConcatOpen \/ ConcatHeaderMismatch \/ ConcatStep \/ ConcatFinish

SpecConcatHeaders == InitConcatHeaders /\ [][NextConcatHeaders]_vars

\* Two of the input files named have different header parameters.
HeadersMismatched ==
    \E f, g \in Range(filenames) : headers[f] # headers[g]

\* C21: with two input files of different header parameters concat_bus
\* never gets past its start other than by the abort: the output file is
\* not created and nothing is merged.
HeaderMismatchAbortsBeforeOutput ==
    HeadersMismatched =>
        /\ pc \in {"start", "header_mismatch"}
        /\ "out.bus" \notin DOMAIN fs
        /\ emitted = <<>>

HeaderMismatchAbortsBeforeOutputWitness ==
    /\ pc = "header_mismatch"
    /\ Len(filenames) = 2
    /\ fs["a.bus"] # <<>>
    /\ fs["b.bus"] # <<>>
    /\ headers["a.bus"].cb_len = headers["b.bus"].cb_len
    /\ headers["a.bus"].umi_len # headers["b.bus"].umi_len

----------------------------------------------------------------------------
(* count.rs, count2.rs: the record groups handed to map_record_list.       *)

\* Ec2GeneMapper::get_genes: the genes an equivalence class is compatible
\* with.
Ec2Gene(ec) == CASE ec = 0 -> {1} [] ec = 1 -> {2} [] ec = 2 -> {1, 2}

\* MappingResult, and the outcome of a call that panics.
SingleGene(g) == [kind |-> "SingleGene", genes |-> {g}]

Multimapped(genes) == [kind |-> "Multimapped", genes |-> genes]

Inconsistent == [kind |-> "Inconsistent", genes |-> {}]

Panicked == [kind |-> "panic", genes |-> {}]

\* The genes every record of the list is compatible with.
SharedGenes(records) ==
    {g \in Ec2Gene(records[1].EC) :
        \A i \in 1..Len(records) : g \in Ec2Gene(records[i].EC)}

\* bustools::consistent_genes::find_consistent: an empty list is fatal.
find_consistent(records) ==
    IF records = <<>> THEN Panicked
    ELSE IF Cardinality(SharedGenes(records)) = 1
         THEN SingleGene(CHOOSE g \in SharedGenes(records) : TRUE)
         ELSE IF SharedGenes(records) = {} THEN Inconsistent
              ELSE Multimapped(SharedGenes(records))

\* Faulty variant of map_record_list: an empty list is Inconsistent.
map_record_list_lenient(records, ignore) ==
    IF Len(records) = 1 THEN find_consistent(records) ELSE Inconsistent

\* map_record_list(records, eg_mapper, ignore_multi_ec)
map_record_list(records, ignore) ==
    IF ignore
    THEN CASE Len(records) = 1 -> find_consistent(records)
           [] Len(records) = 0 -> Panicked
           [] OTHER -> Inconsistent
    ELSE find_consistent(records)

\* all_expression_vector.entry(key).or_insert(0) += 1 on a SingleGene.
CountUmi(vector, cb, m) ==
    IF m.kind # "SingleGene" THEN vector
    ELSE LET key == <<cb, CHOOSE g \in m.genes : TRUE>>
         IN  [k \in (DOMAIN vector) \cup {key} |->
                 (IF k \in DOMAIN vector THEN vector[k] ELSE 0)
                     + (IF k = key THEN 1 ELSE 0)]

\* A call of map_record_list by caller: the call is logged, a SingleGene is
\* counted, a panic ends the program.
CallMapRecordList(caller, cb, records, continue) ==
    LET m == map_record_list(records, ignore_multi_ec)
    IN  /\ map_calls' = Append(map_calls, [caller |-> caller, records |-> records,
                                           result |-> m])
        /\ all_expression_vector' = CountUmi(all_expression_vector, cb, m)
        /\ pc' = IF m.kind = "panic" THEN "panicked" ELSE continue

CountFrame ==
    UNCHANGED <<headers, correctVars, tmplog, overflow_checks, fs, chunksize,
                chunkfiles, filenames, current_items, emitted, ignore_multi_ec>>

\* map_record_list applied to the records of the busfile as one list.
MapRecordListCall ==
    /\ pc = "start"
    /\ CallMapRecordList("direct", 0, fs["in.bus"], "mapped")
    /\ UNCHANGED <<nread, iterators, new_count_sample>>
    /\ CountFrame

\* count2::count and count::count up to their loops: the busfile is opened
\* and grouped.
GroupsOpen(running) ==
    /\ pc = "start"
    /\ iterators' = [n \in {"in.bus"} |-> groupby_cbumi(fs["in.bus"])]
    /\ pc' = running
    /\ UNCHANGED <<nread, new_count_sample, map_calls, all_expression_vector>>
    /\ CountFrame

Count2Open == GroupsOpen("count2")

\* count2::count, one iteration of the loop over the CB/UMI groups.
Count2Step ==
    /\ pc = "count2"
    /\ iterators["in.bus"] # <<>>
    /\ LET group == Head(iterators["in.bus"])
       IN  CallMapRecordList("count2::count", group.key[1], group.records, "count2")
    /\ iterators' = [iterators EXCEPT !["in.bus"] = Tail(@)]
    /\ UNCHANGED <<nread, new_count_sample>>
    /\ CountFrame

CountOpen == GroupsOpen("count")

\* count::records_to_expression_vector, one iteration of the loop over the
\* groups of group_record_by_cb_umi, which come in the order of a map.
CountStep ==
    /\ pc = "count"
    /\ \E i \in 1..Len(iterators["in.bus"]) :
           LET group == iterators["in.bus"][i]
           IN  /\ CallMapRecordList("count::count", group.key[1], group.records, "count")
               /\ iterators' = [iterators EXCEPT !["in.bus"] =
                                    SubSeq(@, 1, i - 1) \o SubSeq(@, i + 1, Len(@))]
    /\ UNCHANGED <<nread, new_count_sample>>
    /\ CountFrame

\* The sum of a sequence of numbers.
RECURSIVE Sum(_)
Sum(seq) == IF seq = <<>> THEN 0 ELSE Head(seq) + Sum(Tail(seq))

\* multinomial_sample: total_counts reads spread over the records.
MultinomialSamples(n) == {v \in [1..n -> 0..n] : Sum(v) = n}

\* baysian_count up to the loop of one sampling iteration: the counts are
\* sampled, the busfile is opened and grouped.
BaysianOpen ==
    /\ pc = "start"
    /\ new_count_sample' \in MultinomialSamples(Len(fs["in.bus"]))
    /\ iterators' = [n \in {"in.bus"} |-> groupby_cbumi(fs["in.bus"])]
    /\ nread' = 0
    /\ pc' = "baysian"
    /\ UNCHANGED <<map_calls, all_expression_vector>>
    /\ CountFrame

\* injected_records: the records of a group with the sampled counts, those
\* with count 0 removed.
RECURSIVE Injected(_, _, _)
Injected(rlist, sample, at) ==
    IF rlist = <<>> THEN <<>>
    ELSE (IF sample[at + 1] > 0
          THEN <<[Head(rlist) EXCEPT !.COUNT = U32(0, sample[at + 1])]>>
          ELSE <<>>) \o Injected(Tail(rlist), sample, at + 1)

\* baysian_count, one iteration of the loop over the CB/UMI groups; a group
\* left without records is skipped.
BaysianStep ==
    /\ pc = "baysian"
    /\ iterators["in.bus"] # <<>>
    /\ LET group == Head(iterators["in.bus"])
           injected_records == Injected(group.records, new_count_sample, nread)
       IN  /\ nread' = nread + Len(group.records)
           /\ IF injected_records = <<>>
              THEN UNCHANGED <<pc, map_calls, all_expression_vector>>
              ELSE CallMapRecordList("baysian_count", group.key[1], injected_records,
                                     "baysian")
    /\ iterators' = [iterators EXCEPT !["in.bus"] = Tail(@)]
    /\ UNCHANGED new_count_sample
    /\ CountFrame

\* The loop over the groups has ended.
CountFinish ==
    /\ pc \in {"count", "count2", "baysian"}
    /\ iterators["in.bus"] = <<>>
    /\ pc' = "done"
    /\ UNCHANGED <<nread, iterators, new_count_sample, map_calls, all_expression_vector>>
    /\ CountFrame

\* The records of the busfiles that are counted.
CountRecords ==
    {[CB |-> 0, UMI |-> u, EC |-> e, COUNT |-> U32(0, 1), FLAG |-> 0] :
        u \in {0, 1}, e \in {0, 1, 2}}

InitCount ==
    /\ pc = "start"
    /\ ignore_multi_ec \in BOOLEAN
    /\ \E busfile \in {b \in SeqsUpTo(CountRecords, MaxLen) : CbUmiSorted(b)} :
           fs = Put(NoFiles, "in.bus", busfile)
    /\ new_count_sample = <<>>
    /\ map_calls = <<>>
    /\ all_expression_vector = <<>>
    /\ overflow_checks = FALSE
    /\ chunksize = 1
    /\ nread = 0
    /\ chunkfiles = <<>>
    /\ filenames = <<>>
    /\ iterators = NoFiles
    /\ current_items = NoFiles
    /\ emitted = <<>>
    /\ tmplog = <<>>
    /\ headers = NoFiles
    /\ InitNoCorrect

NextCount ==
    \/ MapRecordListCall
    \/ Count2Open
    \/ Count2Step
    \/ CountOpen
    \/ CountStep
    \/ BaysianOpen
    \/ BaysianStep
    \/ CountFinish

SpecCount == InitCount /\ [][NextCount]_vars

\* C22: a call of map_record_list with an empty record list panics and
\* returns no MappingResult, whatever ignore_multi_ec is; count::count,
\* count2::count and baysian_count never pass an empty list.
EmptyGroupIsFatal ==
    \A i \in 1..Len(map_calls) :
        /\ map_calls[i].records = <<>> =>
               (map_calls[i].result.kind = "panic" /\ pc = "panicked")
        /\ map_calls[i].caller # "direct" => map_calls[i].records # <<>>

EmptyGroupIsFatalWitness ==
    /\ pc = "panicked"
    /\ ignore_multi_ec
    /\ Len(map_calls) = 1
    /\ map_calls[1].records = <<>>

----------------------------------------------------------------------------
(* The frame of one merge step. *)

\* The groups source n has not yielded yet, its head first.
Remaining(n) ==
    (IF n \in DOMAIN current_items THEN <<current_items[n]>> ELSE <<>>)
        \o iterators[n]

\* The sources that still hold a group.
Live == {n \in DOMAIN iterators : Remaining(n) # <<>>}

\* Source n holds the least head key among the live sources.
HoldsLeastHead(n) ==
    /\ n \in Live
    /\ \A m \in Live : ~TupleLess(Head(Remaining(m)).key, Head(Remaining(n)).key)

\* C23: a merge step advances exactly the sources whose head has the least
\* key, by one group each, and yields the records of each of those heads;
\* every other source is left as it was, and a source without records
\* neither yields nor comes back.
MergeStepAdvancesOnlyMinSources ==
    [][ (pc = "merging" /\ emitted' # emitted) =>
            \A n \in DOMAIN iterators :
                /\ DOMAIN iterators' = DOMAIN iterators
                /\ HoldsLeastHead(n) =>
                       /\ Remaining(n)' = Tail(Remaining(n))
                       /\ n \in DOMAIN emitted'[Len(emitted')].dict
                       /\ emitted'[Len(emitted')].dict[n] = Head(Remaining(n)).records
                /\ ~HoldsLeastHead(n) =>
                       /\ Remaining(n)' = Remaining(n)
                       /\ n \notin DOMAIN emitted'[Len(emitted')].dict
        ]_vars

\* A step has left one source exhausted and another, whose head was not at
\* the least key, untouched.
MergeStepAdvancesOnlyMinSourcesWitness ==
    /\ pc = "merging"
    /\ Len(emitted) >= 2
    /\ \E n \in DOMAIN iterators : Remaining(n) = <<>>
    /\ \E n \in Live : n \notin DOMAIN emitted[Len(emitted)].dict

----------------------------------------------------------------------------
(* The runs of sort_on_disk. *)

\* ceil(n / c)
CeilDiv(n, c) == (n + c - 1) \div c

\* The input records i*c .. min((i+1)*c, n)-1, counted from 0.
Batch(i) ==
    LET n == Len(fs["in.bus"])
        last == IF (i + 1) * chunksize < n THEN (i + 1) * chunksize ELSE n
    IN  SubSeq(fs["in.bus"], i * chunksize + 1, last)

\* C24: the runs created so far are ceil(nread/c) many, ceil(n/c) once the
\* chunk loop has ended; run i is stored as tmp_i and is the Run Builder
\* result of input records i*c .. min((i+1)*c, n)-1; a batch and its run have
\* at most c records and only the last batch is smaller; the names are
\* pairwise distinct and each run is a source of its own in the merge.
RunsAreTheBatches ==
    /\ Len(chunkfiles) = CeilDiv(nread, chunksize)
    /\ pc \in {"merging", "done"} =>
           Len(chunkfiles) = CeilDiv(Len(fs["in.bus"]), chunksize)
    /\ \A i, j \in 1..Len(chunkfiles) : i # j => chunkfiles[i] # chunkfiles[j]
    /\ \A i \in 1..Len(chunkfiles) :
           /\ chunkfiles[i] = TmpName(i - 1)
           /\ Len(Batch(i - 1)) <= chunksize
           /\ Len(Batch(i - 1)) < chunksize => i = CeilDiv(Len(fs["in.bus"]), chunksize)
           /\ pc \in {"chunking", "merging"} =>
                  /\ chunkfiles[i] \in DOMAIN fs
                  /\ fs[chunkfiles[i]] = Values(sort_into_btree(Batch(i - 1), FALSE).map)
                  /\ Len(fs[chunkfiles[i]]) <= chunksize
    /\ pc = "merging" =>
           /\ DOMAIN iterators = {chunkfiles[i] : i \in 1..Len(chunkfiles)}
           /\ Cardinality(DOMAIN iterators) = CeilDiv(Len(fs["in.bus"]), chunksize)

\* Two runs were created, the last one from a batch smaller than chunksize.
RunsAreTheBatchesWitness ==
    /\ pc = "merging"
    /\ chunksize = 2
    /\ Len(fs["in.bus"]) = 3
    /\ Len(chunkfiles) = 2
    /\ Len(Batch(1)) = 1

----------------------------------------------------------------------------
(* Termination of sort_on_disk. *)

\* sort_on_disk has returned or was aborted by a panic.
SortStopped == pc \in {"done", "panicked"}

\* C25: sort_on_disk stops only by completion: when it takes no further
\* step, the chunk loop and the merge have run to their end and the function
\* has returned.
SortStopsOnlyByCompletion == SortStopped => pc = "done"

----------------------------------------------------------------------------
(* The order of the records written by correct. *)

\* The busfile is sorted by (cb,umi,ec,flag) with one record per key.
CorrectInputSorted == StrictlyAscending(fs["in.bus"])

\* The correction map is strictly increasing on the barcodes of the busfile
\* that it holds.
MapIncreasingOnInput ==
    \A i, j \in 1..Len(fs["in.bus"]) :
        LET a == fs["in.bus"][i].CB
            b == fs["in.bus"][j].CB
        IN  (a \in DOMAIN corrector /\ b \in DOMAIN corrector /\ a < b)
                => corrector[a] < corrector[b]

\* C26 as stated: a sorted busfile with one record per key is corrected
\* into a sorted busfile with one record per key.
CorrectKeepsSortedness ==
    (pc = "done" /\ CorrectInputSorted) => StrictlyAscending(fs["out.bus"])

\* C26: the records are written in the order they are read, without
\* re-sorting; a sorted busfile with one record per key is corrected into a
\* sorted busfile with one record per key when the correction map is
\* strictly increasing on the barcodes of the busfile.
CorrectKeepsSortednessUnderIncreasingMap ==
    (pc = "done" /\ CorrectInputSorted /\ MapIncreasingOnInput)
        => StrictlyAscending(fs["out.bus"])

\* Two barcodes of a sorted busfile were kept, one of them corrected to
\* another barcode.
CorrectKeepsSortednessUnderIncreasingMapWitness ==
    /\ pc = "done"
    /\ CorrectInputSorted
    /\ MapIncreasingOnInput
    /\ Len(fs["out.bus"]) >= 2
    /\ fs["out.bus"][1].CB # fs["out.bus"][Len(fs["out.bus"])].CB
    /\ \E i \in 1..Len(fs["in.bus"]) :
           /\ fs["in.bus"][i].CB \in DOMAIN corrector
           /\ corrector[fs["in.bus"][i].CB] # fs["in.bus"][i].CB

----------------------------------------------------------------------------
(* sort_on_disk, concat_bus and merge_busfiles_on_overlap side by side. *)

\* The program a state belongs to, told by its files: sort_on_disk reads
\* in.bus, concat_bus has read the headers of its inputs,
\* merge_busfiles_on_overlap has not.
IsConcatRun == "a.bus" \in DOMAIN headers

IsOverlapRun == "a.bus" \in DOMAIN fs /\ "a.bus" \notin DOMAIN headers

InitMergersConcat ==
    /\ pc = "start"
    /\ overflow_checks \in BOOLEAN
    /\ TwoSortedFiles(MaxLen - 1)
    /\ filenames \in {<<"a.bus">>, <<"a.bus", "b.bus">>, <<"b.bus", "a.bus">>,
                      <<"a.bus", "a.bus">>}
    /\ chunksize = 1
    /\ nread = 0
    /\ chunkfiles = <<>>
    /\ iterators = NoFiles
    /\ current_items = NoFiles
    /\ emitted = <<>>
    /\ tmplog = <<>>
    /\ headers = [f \in {"a.bus", "b.bus"} |-> [cb_len |-> 16, umi_len |-> 12]]
    /\ InitNoCount
    /\ InitNoCorrect

InitMergersOverlap ==
    /\ pc = "start"
    /\ overflow_checks \in BOOLEAN
    /\ TwoSortedFiles(MaxLen - 1)
    /\ filenames = <<"a.bus", "b.bus">>
    /\ chunksize = 1
    /\ nread = 0
    /\ chunkfiles = <<>>
    /\ iterators = NoFiles
    /\ current_items = NoFiles
    /\ emitted = <<>>
    /\ tmplog = <<>>
    /\ headers = NoFiles
    /\ InitNoCount
    /\ InitNoCorrect

InitMergersSort ==
    /\ pc = "chunking"
    /\ overflow_checks \in BOOLEAN
    /\ \E busfile \in SeqsUpTo(Records, MaxLen - 1) : fs = Put(NoFiles, "in.bus", busfile)
    /\ chunksize \in 1..MaxChunk
    /\ nread = 0
    /\ chunkfiles = <<>>
    /\ filenames = <<>>
    /\ iterators = NoFiles
    /\ current_items = NoFiles
    /\ emitted = <<>>
    /\ tmplog = <<TempdirCreated>>
    /\ headers = NoFiles
    /\ InitNoCount
    /\ InitNoCorrect

InitMergers == InitMergersSort \/ InitMergersConcat \/ InitMergersOverlap

NextMergers ==
    \/ SortChunk
    \/ SortOpen
    \/ (IsConcatRun /\ ConcatOpen)
    \/ (IsOverlapRun /\ OverlapOpen)
    \/ (~IsOverlapRun /\ MergeStep)
    \/ (~IsOverlapRun /\ MergeFinish)
    \/ (IsOverlapRun /\ OverlapStep)
    \/ (IsOverlapRun /\ OverlapFinish)

SpecMergers == InitMergers /\ [][NextMergers]_vars

\* The record lists of the sources that hold the least head key.
LeastHeadGroup == [n \in {m \in Live : HoldsLeastHead(m)} |-> current_items[n].records]

\* The files after the lists of record_map were written to their writers in
\* the given order of the map.
RECURSIVE WrittenInOrder(_, _, _)
WrittenInOrder(f, record_map, order) ==
    IF order = <<>> THEN f
    ELSE WrittenInOrder([f EXCEPT ![Writers[Head(order)]] = @ \o record_map[Head(order)]],
                        record_map, Tail(order))

----------------------------------------------------------------------------
(* Soundness of the correction map. *)

\* C28: at every moment every entry of the correction map has as key the
\* encoding of an observed barcode and as value the encoding of a whitelist
\* member at Hamming distance at most 1 from the key's barcode, and every
\* record written by correct carries a cb that decodes to a whitelist
\* member.
CorrectionMapIsSound ==
    /\ \A k \in DOMAIN corrector :
           /\ int_to_seq(k, CbLen) \in unique_cbs
           /\ seq_to_int(int_to_seq(k, CbLen)) = k
           /\ int_to_seq(corrector[k], CbLen) \in whitelist
           /\ seq_to_int(int_to_seq(corrector[k], CbLen)) = corrector[k]
           /\ HammingDistance(int_to_seq(k, CbLen), int_to_seq(corrector[k], CbLen)) <= 1
    /\ "out.bus" \in DOMAIN fs =>
           \A i \in 1..Len(fs["out.bus"]) :
               int_to_seq(fs["out.bus"][i].CB, CbLen) \in whitelist

\* The map holds a barcode corrected to another one and a barcode mapped to
\* itself, a barcode was left out, and records with corrected cb were
\* written.
CorrectionMapIsSoundWitness ==
    /\ pc = "done"
    /\ \E k \in DOMAIN corrector : corrector[k] # k
    /\ \E k \in DOMAIN corrector : corrector[k] = k
    /\ \E b \in unique_cbs : seq_to_int(b) \notin DOMAIN corrector
    /\ \E i \in 1..Len(fs["out.bus"]) :
           \A j \in 1..Len(fs["in.bus"]) : fs["out.bus"][i].CB # fs["in.bus"][j].CB

----------------------------------------------------------------------------
(* Count mass of concat_bus. *)

\* The exact (unbounded) sum of the counts of the records.
RECURSIVE TotalCount(_)
TotalCount(records) ==
    IF records = <<>> THEN <<0, 0>>
    ELSE ExactAdd(Head(records).COUNT, TotalCount(Tail(records)))

\* The exact sum, over every entry of the list of files, of the total count
\* of the file the entry names.
RECURSIVE TotalCountOfList(_)
TotalCountOfList(names) ==
    IF names = <<>> THEN <<0, 0>>
    ELSE ExactAdd(TotalCount(fs[Head(names)]), TotalCountOfList(Tail(names)))

\* C29: when concat_bus has completed, the sum of the counts of out.bus is
\* the sum, over every entry of its list of files, of the total count of
\* that file, also when the list names a file more than once.
ConcatConservesCountMass ==
    pc = "done" => TotalCount(fs["out.bus"]) = TotalCountOfList(filenames)

----------------------------------------------------------------------------
(* Width of the aggregated counts. *)

\* C30: every count sort_on_disk writes is the exact integer sum of the
\* input counts of its key, never that sum reduced modulo 2^32: a record of
\* a run carries the sum over the run's batch, a record of out.bus the sum
\* over the whole input.
WrittenCountsAreNeverWrapped ==
    /\ \A i \in 1..Len(chunkfiles) :
           chunkfiles[i] \in DOMAIN fs =>
               \A j \in 1..Len(fs[chunkfiles[i]]) :
                   LET r == fs[chunkfiles[i]][j]
                   IN  /\ FitsU32(SumCounts(Batch(i - 1), OrderingKey(r)))
                       /\ r.COUNT = SumCounts(Batch(i - 1), OrderingKey(r))
    /\ "out.bus" \in DOMAIN fs =>
           \A j \in 1..Len(fs["out.bus"]) :
               LET r == fs["out.bus"][j]
               IN  /\ FitsU32(SumCounts(fs["in.bus"], OrderingKey(r)))
                   /\ r.COUNT = SumCounts(fs["in.bus"], OrderingKey(r))

============================================================================
